---- MODULE Spec2Model ----
(***************************************************************************)
(* Model of target-optiply: the OAuth2 authenticator (auth.py), the        *)
(* request executor (client.py) and the per-entity sinks (sinks.py).       *)
(*                                                                         *)
(* Every sink owns its own OptiplyAuthenticator (client.py:55-85).  A sink *)
(* runs one top-level call at a time; a call is split at its blocking      *)
(* network calls, so that sinks running in parallel (target.py:49) can     *)
(* interleave exactly there.                                               *)
(***************************************************************************)
EXTENDS Integers, Sequences, FiniteSets, TLC

(* ------------------------------ bounds -------------------------------- *)
NSinks == 2
MaxRecords == 2
MaxTicks == 1

(* ------------------------- program constants -------------------------- *)
\* auth.py:125  timedelta(minutes=2)
GracePeriod == 120
\* auth.py:73   timedelta(hours=1)
AssumedLifetime == 3600
\* auth.py:177  token_data.get("expires_in", 3600)
DefaultExpiresIn == 3600
\* client.py:125  max_tries=5
MaxTries == 5

Sinks == 1..NSinks

(* ------------------------------ values -------------------------------- *)
\* A Python value of a record field: t is its type, s its characters when it
\* is a str.  "opaque" is a value json.dumps cannot serialise (a Decimal or a
\* datetime nested in a list or dict).
Str(chars) == [t |-> "str", s |-> chars]
None == [t |-> "none", s |-> <<>>]
Opaque == [t |-> "opaque", s |-> <<>>]

IsWhitespace(c) == c \in {" ", "\t", "\n"}

RECURSIVE LStrip(_)
LStrip(chars) ==
    IF chars # <<>> /\ IsWhitespace(Head(chars)) THEN LStrip(Tail(chars)) ELSE chars

RECURSIVE RStrip(_)
RStrip(chars) ==
    IF chars # <<>> /\ IsWhitespace(chars[Len(chars)])
    THEN RStrip(SubSeq(chars, 1, Len(chars) - 1))
    ELSE chars

\* str.strip()
strip(chars) == RStrip(LStrip(chars))

\* Python truthiness of a field value (None and "" are falsy)
Truthy(v) == v.t # "none" /\ ~(v.t = "str" /\ v.s = <<>>)

\* "field in record"
Has(record, field) == field \in DOMAIN record

\* record.get(field)
Get(record, field) == IF Has(record, field) THEN record[field] ELSE None

(* ------------------------------ streams ------------------------------- *)
\* target.py:52-65: the stream a sink serves decides its class
StreamOf(s) == IF s = 1 THEN "Suppliers" ELSE "Products"

\* sinks.py:360-362, 409-415, 464-470, 565-571, 587-593, 635-641, 652-658, 698-704
get_mandatory_fields(stream) ==
    CASE stream = "Products" -> <<"name", "stockLevel", "unlimitedStock">>
      [] stream = "Suppliers" -> <<"name">>
      [] stream = "SupplierProducts" -> <<"name", "productId", "supplierId">>
      [] stream = "BuyOrders" -> <<"placed", "totalValue", "supplierId", "accountId">>
      [] stream = "BuyOrderLines" -> <<"subtotalValue", "productId", "quantity", "buyOrderId">>
      [] stream = "SellOrders" -> <<"totalValue", "placed">>
      [] stream = "SellOrderLines" -> <<"subtotalValue", "sellOrderId", "productId", "quantity">>
      [] OTHER -> <<>>

\* sinks.py:383-401, 444-462, 545-563, 577-585, 627-633, 647-650, 691-696: the
\* input fields of the mapping table; every table maps a field to its own name
field_mappings(stream) ==
    CASE stream = "Products" ->
           {"name", "skuCode", "eanCode", "articleCode", "price", "unlimitedStock",
            "stockLevel", "notBeingBought", "resumingPurchase", "status", "assembled",
            "minimumStock", "maximumStock", "ignored", "manualServiceLevel",
            "createdAtRemote", "stockMeasurementUnit"}
      [] stream = "Suppliers" ->
           {"name", "emails", "minimumOrderValue", "fixedCosts", "deliveryTime",
            "userReplenishmentPeriod", "reactingToLostSales", "lostSalesReaction",
            "lostSalesMovReaction", "backorders", "backorderThreshold",
            "backordersReaction", "maxLoadCapacity", "containerVolume", "ignored",
            "globalLocationNumber", "type"}
      [] stream = "SupplierProducts" ->
           {"name", "skuCode", "eanCode", "articleCode", "price",
            "minimumPurchaseQuantity", "lotSize", "availability", "availabilityDate",
            "preferred", "productId", "supplierId", "deliveryTime", "status",
            "freeStock", "weight", "volume"}
      [] stream = "BuyOrders" ->
           {"placed", "completed", "expectedDeliveryDate", "totalValue", "supplierId",
            "accountId", "assembly"}
      [] stream = "BuyOrderLines" ->
           {"quantity", "subtotalValue", "productId", "buyOrderId",
            "expectedDeliveryDate"}
      [] stream = "SellOrders" -> {"placed", "totalValue"}
      [] stream = "SellOrderLines" ->
           {"quantity", "subtotalValue", "productId", "sellOrderId"}
      [] OTHER -> {}

\* a test that takes a string of whitespace for a value
IsMissing_unstripped(record, field) ==
    \/ ~Has(record, field)
    \/ record[field].t = "none"
    \/ (record[field].t = "str" /\ record[field].s = <<>>)

\* sinks.py:241: the test that makes a mandatory field count as missing
IsMissing(record, field) ==
    \/ ~Has(record, field)
    \/ record[field].t = "none"
    \/ (record[field].t = "str" /\ strip(record[field].s) = <<>>)

\* sinks.py:238-242: the mandatory fields missing from a record, in table order
missing_fields(stream, record) ==
    LET Missing(field) == IsMissing(record, field)
    IN  SelectSeq(get_mandatory_fields(stream), Missing)

\* a method choice that treats every record as a create
http_method_always_post(record) == "POST"

\* sinks.py:229: PATCH when the key "id" is in the record, else POST
http_method(record) == IF Has(record, "id") THEN "PATCH" ELSE "POST"

\* sinks.py:275-278: the path the request goes to
endpoint_of(record) == IF Truthy(Get(record, "id")) THEN "item" ELSE "collection"

\* sinks.py:331-358: json.dumps raises TypeError on a value it cannot
\* serialise; only top-level datetimes and Decimals are normalised first
generate_record_hash_raises(record) ==
    \E field \in DOMAIN record : record[field].t = "opaque"

(* --------------------------- input records ---------------------------- *)
Acme == <<"a", "c", "m", "e">>
Id42 == <<"4", "2">>

SupplierRecords ==
    { [name |-> Str(Acme)],
      [id |-> Str(Id42), name |-> Str(Acme)],
      [id |-> Str(Id42)],
      [type |-> Str(<<"v">>)],
      [name |-> Str(<<" ", "\t">>)],
      [name |-> None],
      [name |-> Str(Acme), note |-> Opaque],
      [note |-> Opaque],
      [name |-> Str(Acme), globalLocationNumber |-> None],
      [id |-> None, type |-> Str(<<"v">>)] }

ProductRecords ==
    { [name |-> Str(Acme), stockLevel |-> Str(<<"1">>), unlimitedStock |-> Str(<<"f">>)],
      [name |-> Str(Acme), stockLevel |-> Str(<<"1">>)] }

\* records of an order stream: a complete create, creates without totalValue
\* with and without line items, an update without totalValue
OrderLines == <<"[", "a", ",", "b", "]">>

OrderRecords ==
    LET order == [placed |-> Str(<<"2", "0", "2", "4">>), supplierId |-> Str(<<"7">>),
                  accountId |-> Str(<<"1">>)]
        with(record, field, value) ==
            [k \in DOMAIN record \cup {field} |->
                IF k = field THEN value ELSE record[k]]
        lines(record) == with(record, "line_items", Str(OrderLines))
    IN  { with(order, "totalValue", Str(<<"9", "9">>)),
          lines(with(order, "totalValue", Str(<<"9", "9">>))),
          order,
          lines(order),
          lines(with(order, "totalValue", None)),
          lines(with(order, "note", Opaque)),
          lines(with(order, "id", Str(Id42))) }

InputRecords(name) ==
    CASE name = "Suppliers" -> SupplierRecords
      [] name \in {"BuyOrders", "SellOrders"} -> OrderRecords
      [] OTHER -> ProductRecords

NoRecord == [id |-> None]

(* --------------------------- authenticator ---------------------------- *)
\* auth.py:67  self._token_expires_at = None
NoExpiry == -1
NoToken == "none"

\* an authenticator that assumes no lifetime for the token of the configuration
NewAuthenticator_without_expiry(config_token, t) ==
    [ created |-> TRUE,
      access_token |-> config_token,
      token_expires_at |-> NoExpiry,
      refresh_token |-> NoToken ]

\* auth.py:65-73: the authenticator as constructed at time t from the
\* access_token of the configuration
NewAuthenticator(config_token, t) ==
    [ created |-> TRUE,
      access_token |-> config_token,
      token_expires_at |-> IF config_token # NoToken THEN t + AssumedLifetime ELSE NoExpiry,
      refresh_token |-> NoToken ]

\* client.py:50: a sink before its first use of the authenticator property
NoAuthenticator ==
    [ created |-> FALSE, access_token |-> NoToken,
      token_expires_at |-> NoExpiry, refresh_token |-> NoToken ]

\* client.py:55-85: the authenticator property creates the instance lazily
authenticator_of(a, config_token, t) ==
    IF a.created THEN a ELSE NewAuthenticator(config_token, t)

\* a validity test that looks at the token alone
is_token_valid_token_only(a, t) ==
    a.access_token # NoToken

is_token_valid_at_or_after(a, t) ==
    /\ a.access_token # NoToken
    /\ a.token_expires_at # NoExpiry
    /\ a.token_expires_at >= t + GracePeriod

\* auth.py:111-125
is_token_valid(a, t) ==
    /\ a.access_token # NoToken
    /\ a.token_expires_at # NoExpiry
    /\ a.token_expires_at > t + GracePeriod

\* What the token endpoint can answer.  "ok": 200 with a token object;
\* "ok_no_expiry": the same without expires_in; "bad_expires": 200 with an
\* access_token and an expires_in that is not a number; "no_access_token":
\* 200 without access_token; "bad_json": 200 with a body that is not JSON;
\* "http": a status other than 200 (429 is the rate limit);
\* "read_timeout": requests.post raises ReadTimeout.
IssuedTokens == {"t1", "t2"}
RefreshTokenOf(token) == IF token = "t1" THEN "r1" ELSE NoToken
ExpiresIns == {0, 3600}

TokenResponses ==
    [kind : {"ok"}, status : {200}, access_token : IssuedTokens, expires_in : ExpiresIns]
    \cup [kind : {"ok_no_expiry", "bad_expires"}, status : {200},
          access_token : IssuedTokens, expires_in : {0}]
    \cup [kind : {"no_access_token", "bad_json"}, status : {200},
          access_token : {NoToken}, expires_in : {0}]
    \cup [kind : {"http"}, status : {401, 429, 500},
          access_token : {NoToken}, expires_in : {0}]
    \cup [kind : {"read_timeout"}, status : {0},
          access_token : {NoToken}, expires_in : {0}]

\* auth.py:165-181: the cache after update_access_token got the answer resp
\* at time t.  The assignments run in source order, so an expires_in that
\* timedelta rejects (line 178) comes after lines 173-174 have assigned.
update_access_token(a, resp, t) ==
    CASE resp.kind = "ok" ->
           [a EXCEPT !.access_token = resp.access_token,
                     !.refresh_token = RefreshTokenOf(resp.access_token),
                     !.token_expires_at = t + resp.expires_in]
      [] resp.kind = "ok_no_expiry" ->
           [a EXCEPT !.access_token = resp.access_token,
                     !.refresh_token = RefreshTokenOf(resp.access_token),
                     !.token_expires_at = t + DefaultExpiresIn]
      [] resp.kind = "bad_expires" ->
           [a EXCEPT !.access_token = resp.access_token,
                     !.refresh_token = RefreshTokenOf(resp.access_token)]
      [] OTHER -> a

\* auth.py:155-185: the exception update_access_token raises, "none" if it
\* returns
update_access_token_raises(resp) ==
    CASE resp.kind \in {"ok", "ok_no_expiry"} -> "none"
      [] resp.kind = "read_timeout" -> "ReadTimeout"
      [] resp.kind = "bad_expires" -> "TypeError"
      [] resp.kind = "no_access_token" -> "KeyError"
      [] resp.kind = "bad_json" -> "JSONDecodeError"
      [] OTHER -> "Exception"

\* auth.py:187-190: force_refresh clears the cache before it refreshes
invalidate(a) == [a EXCEPT !.access_token = NoToken, !.token_expires_at = NoExpiry]

(* -------------------------- request executor -------------------------- *)
\* What an entity endpoint can answer: a status, or the connection breaks
EntityResponses ==
    [status : {200, 401, 404, 422, 500}, error : {"none"}, id : {None}]
    \cup [status : {0}, error : {"ConnectionError"}, id : {None}]

\* the identifier the service assigns to an entity
ServerId == <<"9", "0", "1">>

\* a success whose body carries the identifier of the entity
IdentifiedResponses == [status : {200}, error : {"none"}, id : {Str(ServerId)}]

\* client.py:101-120: the exception validate_response raises, "none" if it
\* returns
validate_response(status) ==
    IF status >= 500 THEN "RetriableAPIError"
    ELSE IF status = 404 THEN "none"
    ELSE IF status = 401 THEN "FatalAPIError"
    ELSE IF status >= 400 THEN "FatalAPIError"
    ELSE "none"

\* client.py:122-127: the exceptions backoff retries
Retried(exception) == exception \in {"RetriableAPIError", "ReadTimeout"}

\* auth.py:14-210: the methods OptiplyAuthenticator defines
AuthenticatorMethods ==
    {"auth_headers", "oauth_request_body", "is_token_valid",
     "update_access_token", "force_refresh", "_get_auth_config"}

\* client.py:145-171: the exception the 401 branch of _request leaves with.
\* It calls self.authenticator.handle_401_response(), which the class does
\* not define, so the attribute lookup raises before any refresh or retry.
handle_401_raises ==
    IF "handle_401_response" \in AuthenticatorMethods THEN "none" ELSE "AttributeError"

(* ------------------------------- mapper ------------------------------- *)
\* target.py:55-63: the streams that have a sink class of their own
Streams ==
    {"BuyOrders", "Products", "Suppliers", "SupplierProducts", "BuyOrderLines",
     "SellOrders", "SellOrderLines"}

\* More Python values.  s holds the characters of the value's text: the
\* digits of a number, the isoformat() of a datetime, the JSON text of a list.
PyInt(chars) == [t |-> "int", s |-> chars]
PyFloat(chars) == [t |-> "float", s |-> chars]
PyBool(b) == [t |-> "bool", s |-> IF b THEN <<"T">> ELSE <<"F">>]
Decimal(chars) == [t |-> "Decimal", s |-> chars]
Datetime(chars) == [t |-> "datetime", s |-> chars]
PyList(chars) == [t |-> "list", s |-> chars]

Digits == <<"0", "1", "2", "3", "4", "5", "6", "7", "8", "9">>

IsDigit(c) == \E i \in 1..Len(Digits) : Digits[i] = c

IsDigits(chars) == \A i \in 1..Len(chars) : IsDigit(chars[i])

DigitVal(c) == (CHOOSE i \in 1..Len(Digits) : Digits[i] = c) - 1

RECURSIVE ToNat(_)
ToNat(chars) ==
    IF chars = <<>> THEN 0
    ELSE 10 * ToNat(SubSeq(chars, 1, Len(chars) - 1)) + DigitVal(chars[Len(chars)])

RECURSIVE NatChars(_)
NatChars(n) ==
    IF n < 10 THEN <<Digits[n + 1]>>
    ELSE Append(NatChars(n \div 10), Digits[(n % 10) + 1])

\* str.lower() on the letters the inputs use
LowerChar(c) ==
    CASE c = "T" -> "t" [] c = "R" -> "r" [] c = "U" -> "u" [] c = "E" -> "e"
      [] OTHER -> c

lower(chars) == [i \in 1..Len(chars) |-> LowerChar(chars[i])]

\* the position of the first c in chars, 0 when there is none
RECURSIVE IndexOf(_, _, _)
IndexOf(chars, c, from) ==
    IF from > Len(chars) THEN 0
    ELSE IF chars[from] = c THEN from
    ELSE IndexOf(chars, c, from + 1)

\* digits without leading zeros
RECURSIVE StripZeros(_)
StripZeros(chars) ==
    IF Len(chars) > 1 /\ Head(chars) = "0" THEN StripZeros(Tail(chars))
    ELSE IF chars = <<>> THEN <<"0">>
    ELSE chars

\* fraction digits without trailing zeros
RECURSIVE StripTrailingZeros(_)
StripTrailingZeros(chars) ==
    IF Len(chars) > 1 /\ chars[Len(chars)] = "0"
    THEN StripTrailingZeros(SubSeq(chars, 1, Len(chars) - 1))
    ELSE IF chars = <<>> THEN <<"0">>
    ELSE chars

\* A float as Python reads it from text without sign or exponent: "inf", "nan",
\* or digits with an optional fraction; kept as the digits of its whole part
\* and of its fraction.
NoFloat == [kind |-> "ValueError", whole |-> <<>>, frac |-> <<>>]

float_of_chars(chars) ==
    LET c == strip(chars)
        dot == IndexOf(c, ".", 1)
        whole == IF dot = 0 THEN c ELSE SubSeq(c, 1, dot - 1)
        frac == IF dot = 0 THEN <<>> ELSE SubSeq(c, dot + 1, Len(c))
    IN  IF lower(c) = <<"i", "n", "f">> THEN [NoFloat EXCEPT !.kind = "inf"]
        ELSE IF lower(c) = <<"n", "a", "n">> THEN [NoFloat EXCEPT !.kind = "nan"]
        ELSE IF IsDigits(whole) /\ IsDigits(frac) /\ Len(whole) + Len(frac) > 0
        THEN [kind |-> "finite", whole |-> StripZeros(whole),
              frac |-> StripTrailingZeros(frac)]
        ELSE NoFloat

\* float(value): ValueError for text that is no number, TypeError for a value
\* that is neither text nor a number
float_of(v) ==
    CASE v.t \in {"str", "int", "float", "Decimal"} -> float_of_chars(v.s)
      [] v.t = "bool" -> [kind |-> "finite",
                          whole |-> IF v = PyBool(TRUE) THEN <<"1">> ELSE <<"0">>,
                          frac |-> <<"0">>]
      [] OTHER -> [NoFloat EXCEPT !.kind = "TypeError"]

\* repr of a float
float_chars(f) ==
    CASE f.kind = "inf" -> <<"i", "n", "f">>
      [] f.kind = "nan" -> <<"n", "a", "n">>
      [] OTHER -> f.whole \o <<".">> \o f.frac

\* int(float(value)): int() raises OverflowError for an infinity and
\* ValueError for a NaN
int_of_float(v) ==
    LET f == float_of(v)
    IN  CASE f.kind = "finite" -> [raised |-> "none", value |-> PyInt(f.whole)]
          [] f.kind = "inf" -> [raised |-> "OverflowError", value |-> None]
          [] f.kind = "nan" -> [raised |-> "ValueError", value |-> None]
          [] OTHER -> [raised |-> f.kind, value |-> None]

\* The JSON texts of the inputs: an array of quoted strings without escapes,
\* or a number.  Quote stands in a text for the double quote character.
Quote == "'"

RECURSIVE IsElements(_)
IsElements(c) ==
    /\ Len(c) >= 2
    /\ c[1] = Quote
    /\ LET close == IndexOf(c, Quote, 2)
           rest == SubSeq(c, close + 1, Len(c))
       IN  /\ close # 0
           /\ \A i \in 2..(close - 1) : c[i] \notin {"[", "]", ","}
           /\ \/ rest = <<>>
              \/ Len(rest) >= 2 /\ rest[1] = "," /\ IsElements(Tail(rest))

\* json.loads(text): the value, or JSONDecodeError; TypeError for a value
\* that is not text
json_loads(v) ==
    LET c == strip(v.s)
    IN  IF v.t # "str" THEN [raised |-> "TypeError", value |-> None]
        ELSE IF Len(c) >= 2 /\ c[1] = "[" /\ c[Len(c)] = "]"
                /\ (Len(c) = 2 \/ IsElements(SubSeq(c, 2, Len(c) - 1)))
        THEN [raised |-> "none", value |-> PyList(SubSeq(c, 2, Len(c) - 1))]
        ELSE IF c # <<>> /\ IsDigits(c) /\ (Len(c) = 1 \/ c[1] # "0")
        THEN [raised |-> "none", value |-> PyInt(c)]
        ELSE [raised |-> "JSONDecodeError", value |-> None]

\* The objects a line_items text can hold; in the text each is one character.
\* Their subtotals have one fractional digit, so sums are kept in tenths.
\* "a": {"subtotalValue": "10.5", "productId": "p1", "quantity": 2}
\* "b": {"subtotalValue": "5.0", "productId": "p2", "quantity": 1}
\* "x": {"subtotalValue": "abc", "productId": "p3", "quantity": 1}
\* "k": {"productId": "p4", "quantity": 1}
LineItems ==
    [ a |-> [subtotalValue |-> Str(<<"1", "0", ".", "5">>)],
      b |-> [subtotalValue |-> Str(<<"5", ".", "0">>)],
      x |-> [subtotalValue |-> Str(<<"a", "b", "c">>)],
      k |-> [productId |-> Str(<<"p", "4">>)] ]

\* json.loads of a line_items text: "[" objects separated by "," "]"
RECURSIVE IsObjects(_)
IsObjects(c) ==
    /\ c # <<>>
    /\ c[1] \in DOMAIN LineItems
    /\ \/ Len(c) = 1
       \/ Len(c) >= 3 /\ c[2] = "," /\ IsObjects(SubSeq(c, 3, Len(c)))

objects_of(c) == SelectSeq(c, LAMBDA ch : ch # ",")

\* sinks.py:607-610, 671-674: the loop over the objects; the total in tenths
RECURSIVE sum_line_items(_)
sum_line_items(objects) ==
    IF objects = <<>> THEN [raised |-> "none", tenths |-> 0]
    ELSE LET item == LineItems[Head(objects)]
             f == IF Has(item, "subtotalValue") THEN float_of(item["subtotalValue"])
                  ELSE [NoFloat EXCEPT !.kind = "KeyError"]
             rest == sum_line_items(Tail(objects))
         IN  IF f.kind # "finite" THEN [raised |-> f.kind, tenths |-> 0]
             ELSE IF rest.raised # "none" THEN rest
             ELSE [raised |-> "none",
                   tenths |-> 10 * ToNat(f.whole) + ToNat(f.frac) + rest.tenths]

\* sinks.py:603-621, 667-685: what a line_items field adds.  total_value
\* starts as the int 0, so str() of it is "0" when there is no object
line_items_of(v) ==
    LET c == strip(v.s)
        inner == SubSeq(c, 2, Len(c) - 1)
        objects == objects_of(inner)
        sum == sum_line_items(objects)
        none == [raised |-> "none", totalValue |-> None, orderLines |-> None]
    IN  IF v.t # "str" THEN [none EXCEPT !.raised = "TypeError"]
        ELSE IF ~(Len(c) >= 2 /\ c[1] = "[" /\ c[Len(c)] = "]"
                  /\ (Len(c) = 2 \/ IsObjects(inner)))
        THEN [none EXCEPT !.raised = "JSONDecodeError"]
        ELSE IF sum.raised # "none" THEN [none EXCEPT !.raised = sum.raised]
        ELSE [ raised |-> "none",
               totalValue |-> Str(IF objects = <<>> THEN <<"0">>
                                  ELSE NatChars(sum.tenths \div 10) \o <<".">>
                                       \o NatChars(sum.tenths % 10)),
               orderLines |-> PyList(objects) ]

\* attributes[field] = value
Put(attributes, field, value) ==
    [k \in DOMAIN attributes \cup {field} |->
        IF k = field THEN value ELSE attributes[k]]

\* attributes.pop(field, None)
Pop(attributes, field) ==
    [k \in DOMAIN attributes \ {field} |-> attributes[k]]

\* sinks.py:99-121: the mapped fields that are present and not None; a
\* datetime becomes its isoformat(), a Decimal a float
build_attributes(stream, record) ==
    [k \in {f \in field_mappings(stream) \cap DOMAIN record : record[f] # None} |->
        CASE record[k].t = "datetime" -> Str(record[k].s)
          [] record[k].t = "Decimal" -> PyFloat(float_chars(float_of(record[k])))
          [] OTHER -> record[k]]

\* sinks.py:161-167, 481-487
emails_step(record, attributes) ==
    IF Has(record, "emails") /\ record["emails"] # None
    THEN LET parsed == json_loads(record["emails"])
         IN  CASE parsed.raised = "none" ->
                    [raised |-> "none", attributes |-> Put(attributes, "emails", parsed.value)]
               [] parsed.raised = "JSONDecodeError" ->
                    [raised |-> "none", attributes |-> Put(attributes, "emails", PyList(<<>>))]
               [] OTHER -> [raised |-> parsed.raised, attributes |-> attributes]
    ELSE [raised |-> "none", attributes |-> attributes]

\* sinks.py:170, 490
boolean_fields == <<"reactingToLostSales", "backorders", "ignored">>

\* sinks.py:169-173, 489-493
RECURSIVE boolean_step(_, _, _)
boolean_step(fields, record, attributes) ==
    IF fields = <<>> THEN attributes
    ELSE LET field == Head(fields)
         IN  boolean_step(Tail(fields), record,
                IF Has(record, field) /\ record[field].t = "str"
                THEN Put(attributes, field,
                         PyBool(lower(record[field].s) = <<"t", "r", "u", "e">>))
                ELSE attributes)

\* sinks.py:176-185, 496-505
integer_fields ==
    <<"deliveryTime", "userReplenishmentPeriod", "lostSalesReaction",
      "lostSalesMovReaction", "backorderThreshold", "backordersReaction",
      "maxLoadCapacity", "containerVolume">>

\* sinks.py:186-193, 506-513: only ValueError and TypeError are caught
RECURSIVE integer_step(_, _, _)
integer_step(fields, record, attributes) ==
    IF fields = <<>> THEN [raised |-> "none", attributes |-> attributes]
    ELSE LET field == Head(fields)
             int == int_of_float(record[field])
         IN  IF ~(Has(record, field) /\ record[field] # None)
             THEN integer_step(Tail(fields), record, attributes)
             ELSE IF int.raised = "none"
             THEN integer_step(Tail(fields), record, Put(attributes, field, int.value))
             ELSE IF int.raised \in {"ValueError", "TypeError"}
             THEN integer_step(Tail(fields), record, Pop(attributes, field))
             ELSE [raised |-> int.raised, attributes |-> attributes]

\* sinks.py:196-199, 516-519
float_fields == <<"minimumOrderValue", "fixedCosts">>

\* sinks.py:200-206, 520-526
RECURSIVE float_step(_, _, _)
float_step(fields, record, attributes) ==
    IF fields = <<>> THEN attributes
    ELSE LET field == Head(fields)
             f == float_of(record[field])
         IN  float_step(Tail(fields), record,
                IF ~(Has(record, field) /\ record[field] # None) THEN attributes
                ELSE IF f.kind \in {"ValueError", "TypeError"} THEN Pop(attributes, field)
                ELSE Put(attributes, field, PyFloat(float_chars(f))))

\* sinks.py:208, 528
TypeValues == {Str(<<"v", "e", "n", "d", "o", "r">>),
               Str(<<"p", "r", "o", "d", "u", "c", "e", "r">>)}

\* a type check that lets every value through
type_step_unchecked(record, attributes) == attributes

\* sinks.py:208-211, 528-531
type_step(record, attributes) ==
    IF Has(record, "type") /\ record["type"] \notin TypeValues
    THEN Put(attributes, "type", Str(<<"v", "e", "n", "d", "o", "r">>))
    ELSE attributes

\* sinks.py:214, 534  must be 13 characters
GlnLength == 13

\* len(value): TypeError for a value that has no length
len_of(v) ==
    CASE v.t = "str" -> [raised |-> "none", len |-> Len(v.s)]
      [] v.t = "list" ->
           [raised |-> "none",
            len |-> Cardinality({i \in 1..Len(v.s) : v.s[i] = Quote}) \div 2]
      [] v.t = "opaque" -> [raised |-> "none", len |-> 1]
      [] OTHER -> [raised |-> "TypeError", len |-> 0]

\* sinks.py:213-216, 533-536
gln_step(record, attributes) ==
    IF Has(record, "globalLocationNumber")
    THEN LET n == len_of(record["globalLocationNumber"])
         IN  IF n.raised # "none" THEN [raised |-> n.raised, attributes |-> attributes]
             ELSE IF n.len # GlnLength
             THEN [raised |-> "none", attributes |-> Pop(attributes, "globalLocationNumber")]
             ELSE [raised |-> "none", attributes |-> attributes]
    ELSE [raised |-> "none", attributes |-> attributes]

\* sinks.py:152-219 (the base class, and its copy in SupplierSink, 472-539).
\* Then is the next statement of the body: it runs on the attributes the
\* statements before it left, unless one of them raised.
base_additional_attributes(record, attributes) ==
    LET Then(result, statement(_)) ==
            CHOOSE next \in {IF r.raised # "none" THEN r ELSE statement(r.attributes) :
                                r \in {result}} : TRUE
        emails(a) == emails_step(record, a)
        booleans(a) ==
            [raised |-> "none", attributes |-> boolean_step(boolean_fields, record, a)]
        integers(a) == integer_step(integer_fields, record, a)
        floats(a) ==
            [raised |-> "none", attributes |-> float_step(float_fields, record, a)]
        type(a) == [raised |-> "none", attributes |-> type_step(record, a)]
        gln(a) == gln_step(record, a)
        synced(a) ==
            [raised |-> "none", attributes |-> Pop(a, "remoteDataSyncedToDate")]
        start == [raised |-> "none", attributes |-> attributes]
    IN  Then(Then(Then(Then(Then(Then(Then(start, emails), booleans), integers),
                            floats), type), gln), synced)

\* sinks.py:595-621 (BuyOrderSink) and 660-685 (SellOrderSink)
order_additional_attributes(record, attributes) ==
    IF Has(record, "line_items")
    THEN LET lines == line_items_of(record["line_items"])
         IN  IF lines.raised # "none"
             THEN [raised |-> lines.raised, attributes |-> attributes]
             ELSE [raised |-> "none",
                   attributes |-> Put(Put(attributes, "totalValue", lines.totalValue),
                                      "orderLines", lines.orderLines)]
    ELSE [raised |-> "none", attributes |-> attributes]

\* the _add_additional_attributes of the sink class of a stream; ProductsSink
\* overrides it with an empty body (sinks.py:417-438)
add_additional_attributes(stream, record, attributes) ==
    CASE stream = "Products" -> [raised |-> "none", attributes |-> attributes]
      [] stream \in {"BuyOrders", "SellOrders"} ->
           order_additional_attributes(record, attributes)
      [] OTHER -> base_additional_attributes(record, attributes)

\* sinks.py:123-150: the attributes of the payload, or the exception raised;
\* the payload is logged with json.dumps (line 149), which raises TypeError on
\* a value it cannot serialise
prepare_payload(stream, record) ==
    LET Then(result, statement(_)) ==
            CHOOSE next \in {IF r.raised # "none" THEN r ELSE statement(r.attributes) :
                                r \in {result}} : TRUE
        additional(a) == add_additional_attributes(stream, record, a)
        dumps(a) ==
            [raised |-> IF \E k \in DOMAIN a : a[k].t = "opaque" THEN "TypeError"
                        ELSE "none",
             attributes |-> a]
        built == [raised |-> "none", attributes |-> build_attributes(stream, record)]
    IN  Then(Then(built, additional), dumps)

\* the cases in which preparing the payload raises
prepare_payload_raises(stream, record) ==
    prepare_payload(stream, record).raised # "none"

\* sinks.py:344-351: the serialisable copy of a value; only a datetime or a
\* Decimal that is itself the field's value is converted
serializable(v) ==
    CASE v.t = "datetime" -> Str(v.s)
      [] v.t = "Decimal" -> PyFloat(float_chars(float_of(v)))
      [] OTHER -> v

\* the keys of the hashed records, in the order sorted() puts them
KeyOrder == <<"id", "name", "price", "seen">>

\* sinks.py:354: sorted(serializable_record.items()).  The items of a dict in
\* insertion order are a sequence of [key, value]; a dict has each key once.
sorted_items(items) ==
    LET present(k) == \E i \in 1..Len(items) : items[i].key = k
        keys == SelectSeq(KeyOrder, present)
        at(k) == CHOOSE i \in 1..Len(items) : items[i].key = k
    IN  [n \in 1..Len(keys) |->
            [key |-> keys[n], value |-> serializable(items[at(keys[n])].value)]]

NoHash == [raised |-> "none", digest |-> <<>>]

\* sinks.py:331-358: the SHA-256 of the JSON text of the sorted items; the
\* digest stands for that text (SHA-256 taken as collision free), and
\* json.dumps raises TypeError on a value it cannot serialise
generate_record_hash(items) ==
    IF \E i \in 1..Len(items) : serializable(items[i].value).t = "opaque"
    THEN [raised |-> "TypeError", digest |-> <<>>]
    ELSE [raised |-> "none", digest |-> sorted_items(items)]

NoPayload == [raised |-> "none", attributes |-> <<>>]

\* a call of one of the pure methods of a sink, and what it returned
NoMapper ==
    [ call |-> "none", stream |-> "none", record |-> [id |-> None],
      missing |-> <<>>, payload |-> NoPayload,
      items |-> <<>>, other |-> <<>>, hash |-> NoHash, other_hash |-> NoHash ]

(* ------------------------------- state -------------------------------- *)
VARIABLES
    now,                \* datetime.utcnow(), in seconds
    ticks,              \* how often the clock has advanced
    config,             \* the durable configuration the target was started with
    running,            \* the sinks the framework drives in this run
    stream_name,        \* per sink: the stream it serves
    pc,                 \* per sink: "idle", "token" (token request in flight),
                        \* "request" (entity request in flight), "aborted"
    op,                 \* per sink: the top-level call in progress or last made
    rec,                \* per sink: the record being processed
    tries,              \* per sink: invocations of _request made by backoff
    authenticator,      \* per sink: its OptiplyAuthenticator
    processed_records,  \* per sink: self._processed_records
    remaining,          \* per sink: records the stream still delivers
    obs,                \* per sink: what the current or last call did
    mapper              \* the last call of a pure method of a sink, and its result

vars == <<now, ticks, config, running, stream_name, pc, op, rec, tries, authenticator,
          processed_records, remaining, obs, mapper>>

\* no entity response yet
NoStatus == -1

NoCheck == [done |-> FALSE, result |-> FALSE, a |-> NoAuthenticator, at |-> 0]

NoObs ==
    [ sent |-> 0,               \* entity requests sent
      token_requests |-> 0,     \* token requests sent
      forced |-> 0,             \* forced refreshes made
      got401 |-> FALSE,         \* an entity request was answered 401
      sent_after_401 |-> 0,     \* entity requests sent after that answer
      header |-> "",            \* the token of the last header auth_headers returned
      header_valid |-> FALSE,   \* is_token_valid when that header was returned
      checked |-> NoCheck,      \* the last is_token_valid call and its result
      before |-> NoAuthenticator, \* the cache when update_access_token was entered
      refresh |-> "none",       \* update_access_token: "in_flight", "ok", "failed"
      response |-> "none",      \* kind of the last token response
      status |-> 0,             \* status of the last token response
      raised |-> "none",        \* the exception the call ended with
      method |-> "",            \* the http_method process_record chose
      endpoint |-> "",          \* the endpoint process_record built for _request
      answered |-> NoStatus,    \* status of the last entity response
      returned |-> None,        \* the identifier in the last entity response
      after_failure |-> FALSE ] \* auth_headers: the call before failed to refresh

InitCommon ==
    /\ mapper = NoMapper
    /\ now = 0
    /\ ticks = 0
    /\ config \in [access_token : {NoToken, "cfg"}, refresh_token : {NoToken},
                   expires_in : {NoExpiry}]
    /\ pc = [s \in Sinks |-> "idle"]
    /\ op = [s \in Sinks |-> "none"]
    /\ rec = [s \in Sinks |-> NoRecord]
    /\ tries = [s \in Sinks |-> 0]
    /\ authenticator = [s \in Sinks |-> NoAuthenticator]
    /\ processed_records = [s \in Sinks |-> <<>>]
    /\ obs = [s \in Sinks |-> NoObs]

\* one sink, its records one after the other
Init ==
    /\ InitCommon
    /\ stream_name = [s \in Sinks |-> StreamOf(s)]
    /\ running = {1}
    /\ remaining = [s \in Sinks |-> IF s = 1 THEN MaxRecords ELSE 0]

\* every sink runs, each with one record (target.py:49 MAX_PARALLELISM)
InitParallel ==
    /\ InitCommon
    /\ stream_name = [s \in Sinks |-> StreamOf(s)]
    /\ running = Sinks
    /\ remaining = [s \in Sinks |-> 1]

(* ------------------------------ actions ------------------------------- *)
TickSteps == {60, 3480}

\* time passes
Tick(d) ==
    /\ ticks < MaxTicks
    /\ now' = now + d
    /\ ticks' = ticks + 1
    /\ UNCHANGED <<config, running, stream_name, pc, op, rec, tries, authenticator,
                   processed_records, remaining, obs, mapper>>

\* an outcome store that keeps only the latest outcome
Finish_overwriting(s, record, success, error) ==
    IF generate_record_hash_raises(record)
    THEN /\ pc' = [pc EXCEPT ![s] = "aborted"]
         /\ UNCHANGED processed_records
    ELSE /\ pc' = [pc EXCEPT ![s] = "idle"]
         /\ processed_records' =
               [processed_records EXCEPT
                  ![s] = << [success |-> success,
                             id |-> Get(record, "id"),
                             error |-> error] >>]

\* sinks.py:246-252, 292-298, 313-318, 323-329: the record's outcome is
\* appended; its hash is computed first, also in the exception handler, so a
\* record json.dumps rejects leaves process_record with that exception.
Finish(s, record, success, error) ==
    IF generate_record_hash_raises(record)
    THEN /\ pc' = [pc EXCEPT ![s] = "aborted"]
         /\ UNCHANGED processed_records
    ELSE /\ pc' = [pc EXCEPT ![s] = "idle"]
         /\ processed_records' =
               [processed_records EXCEPT
                  ![s] = Append(@, [success |-> success,
                                    id |-> Get(record, "id"),
                                    error |-> error])]

\* sinks.py:44-47: the outcomes of a list that report success
success_count(records) ==
    Cardinality({i \in 1..Len(records) : records[i].success})

\* sinks.py:49-52: the outcomes of a list that do not
failure_count(records) ==
    Cardinality({i \in 1..Len(records) : ~records[i].success})

\* sinks.py:364-377
get_stats(records) ==
    [ success |-> success_count(records),
      failure |-> failure_count(records),
      total |-> success_count(records) + failure_count(records),
      processed_records |-> records ]

\* target.py:75-86: the simplified counts get_state gives for a list of outcomes
get_state(records) ==
    [ total |-> Len(records),
      success |-> success_count(records),
      failed |-> Len(records) - success_count(records) ]

\* auth.py:82: auth_headers asks is_token_valid
Checked(o, a) ==
    [o EXCEPT !.checked = [done |-> TRUE, result |-> is_token_valid(a, now),
                           a |-> a, at |-> now]]

\* client.py:136-142, 155-161: an entity request leaves with the header
Send(o, a) ==
    [o EXCEPT !.sent = @ + 1,
              !.sent_after_401 = IF o.got401 THEN @ + 1 ELSE @,
              !.header = a.access_token,
              !.header_valid = is_token_valid(a, now)]

\* auth.py:83, 127-160: update_access_token posts the token request
Refreshing(o, a) ==
    [o EXCEPT !.token_requests = @ + 1, !.before = a, !.refresh = "in_flight"]

\* client.py:128-142 with 87-99 and auth.py:75-87: one invocation of _request
\* up to its first network call, for the authenticator a; o is what the call
\* has done so far
Attempt(s, a, o) ==
    /\ authenticator' = [authenticator EXCEPT ![s] = a]
    /\ IF is_token_valid(a, now)
       THEN /\ pc' = [pc EXCEPT ![s] = "request"]
            /\ obs' = [obs EXCEPT ![s] = Send(Checked(o, a), a)]
       ELSE /\ pc' = [pc EXCEPT ![s] = "token"]
            /\ obs' = [obs EXCEPT ![s] = Refreshing(Checked(o, a), a)]
    /\ UNCHANGED processed_records

\* sinks.py:221-284: process_record up to its first network call
ProcessRecord(s, record) ==
    /\ s \in running
    /\ pc[s] = "idle"
    /\ remaining[s] > 0
    /\ record \in InputRecords(stream_name[s])
    /\ remaining' = [remaining EXCEPT ![s] = @ - 1]
    /\ op' = [op EXCEPT ![s] = "process_record"]
    /\ rec' = [rec EXCEPT ![s] = record]
    /\ tries' = [tries EXCEPT ![s] = 1]
    /\ LET o == [NoObs EXCEPT !.method = http_method(record)]
       IN  IF http_method(record) = "POST" /\ missing_fields(stream_name[s], record) # <<>>
           THEN /\ Finish(s, record, FALSE, "missing")
                /\ obs' = [obs EXCEPT ![s] = o]
                /\ UNCHANGED authenticator
           ELSE IF prepare_payload_raises(stream_name[s], record)
           THEN /\ Finish(s, record, FALSE, "exception")
                /\ obs' = [obs EXCEPT ![s] = [o EXCEPT !.raised = "TypeError"]]
                /\ UNCHANGED authenticator
           ELSE Attempt(s, authenticator_of(authenticator[s], config.access_token, now),
                        [o EXCEPT !.endpoint = endpoint_of(record)])
    /\ UNCHANGED <<mapper, now, ticks, config, running, stream_name>>

\* auth.py:75-87: auth_headers called on the sink's authenticator
AuthHeaders(s) ==
    /\ s \in running
    /\ pc[s] = "idle"
    /\ op' = [op EXCEPT ![s] = "auth_headers"]
    /\ LET a == authenticator_of(authenticator[s], config.access_token, now)
           o == Checked([NoObs EXCEPT !.after_failure = obs[s].refresh = "failed"], a)
       IN  /\ authenticator' = [authenticator EXCEPT ![s] = a]
           /\ IF is_token_valid(a, now)
              THEN /\ obs' = [obs EXCEPT ![s] =
                                [o EXCEPT !.header = a.access_token,
                                          !.header_valid = is_token_valid(a, now)]]
                   /\ UNCHANGED pc
              ELSE /\ obs' = [obs EXCEPT ![s] = Refreshing(o, a)]
                   /\ pc' = [pc EXCEPT ![s] = "token"]
    /\ UNCHANGED <<mapper, now, ticks, config, running, stream_name, rec, tries,
                   processed_records, remaining>>

\* auth.py:187-191: force_refresh called on the sink's authenticator
ForceRefresh(s) ==
    /\ s \in running
    /\ pc[s] = "idle"
    /\ op' = [op EXCEPT ![s] = "force_refresh"]
    /\ LET a == invalidate(authenticator_of(authenticator[s], config.access_token, now))
       IN  /\ authenticator' = [authenticator EXCEPT ![s] = a]
           /\ obs' = [obs EXCEPT ![s] =
                        Refreshing([NoObs EXCEPT !.forced = 1], a)]
    /\ pc' = [pc EXCEPT ![s] = "token"]
    /\ UNCHANGED <<mapper, now, ticks, config, running, stream_name, rec, tries,
                   processed_records, remaining>>

\* auth.py:155-185: the token endpoint answers, and the call that asked goes
\* on: auth_headers returns the header (auth.py:85-87), _request sends the
\* entity request (client.py:133-142), backoff retries a ReadTimeout
\* (client.py:122-127), any other exception reaches the handler of
\* process_record (sinks.py:320-329)
TokenResponse(s, resp) ==
    /\ pc[s] = "token"
    /\ resp \in TokenResponses
    /\ LET a == update_access_token(authenticator[s], resp, now)
           ex == update_access_token_raises(resp)
           o == [obs[s] EXCEPT !.refresh = IF ex = "none" THEN "ok" ELSE "failed",
                               !.response = resp.kind,
                               !.status = resp.status,
                               !.raised = ex]
       IN  IF op[s] = "process_record"
           THEN IF ex = "none"
                THEN /\ authenticator' = [authenticator EXCEPT ![s] = a]
                     /\ pc' = [pc EXCEPT ![s] = "request"]
                     /\ obs' = [obs EXCEPT ![s] = Send(o, a)]
                     /\ UNCHANGED <<tries, processed_records>>
                ELSE IF Retried(ex) /\ tries[s] < MaxTries
                THEN /\ tries' = [tries EXCEPT ![s] = @ + 1]
                     /\ Attempt(s, a, o)
                ELSE /\ authenticator' = [authenticator EXCEPT ![s] = a]
                     /\ obs' = [obs EXCEPT ![s] = o]
                     /\ Finish(s, rec[s], FALSE, "exception")
                     /\ UNCHANGED tries
           ELSE /\ authenticator' = [authenticator EXCEPT ![s] = a]
                /\ pc' = [pc EXCEPT ![s] = "idle"]
                /\ obs' = [obs EXCEPT ![s] =
                             IF op[s] = "auth_headers" /\ ex = "none"
                             THEN [o EXCEPT !.header = a.access_token,
                                            !.header_valid = is_token_valid(a, now)]
                             ELSE o]
                /\ UNCHANGED <<tries, processed_records>>
    /\ UNCHANGED <<mapper, now, ticks, config, running, stream_name, op, rec, remaining>>

\* client.py:144-174 and sinks.py:285-329: the entity endpoint answers
EntityResponse(s, resp) ==
    /\ pc[s] = "request"
    /\ resp \in EntityResponses \cup IdentifiedResponses
    /\ LET ex == IF resp.error # "none" THEN resp.error
                 ELSE IF resp.status = 401 /\ handle_401_raises # "none"
                      THEN handle_401_raises
                 ELSE validate_response(resp.status)
           o == [obs[s] EXCEPT !.got401 = @ \/ resp.status = 401,
                               !.answered = resp.status,
                               !.returned = resp.id,
                               !.raised = ex]
       IN  IF ex = "none"
           THEN /\ obs' = [obs EXCEPT ![s] = o]
                /\ IF resp.status = 404
                   THEN Finish(s, rec[s], FALSE, "not_found")
                   ELSE IF resp.status >= 400
                   THEN Finish(s, rec[s], FALSE, "status")
                   ELSE Finish(s, rec[s], TRUE, "none")
                /\ UNCHANGED <<tries, authenticator>>
           ELSE IF Retried(ex) /\ tries[s] < MaxTries
           THEN /\ tries' = [tries EXCEPT ![s] = @ + 1]
                /\ Attempt(s, authenticator[s], o)
           ELSE /\ obs' = [obs EXCEPT ![s] = o]
                /\ Finish(s, rec[s], FALSE, "exception")
                /\ UNCHANGED <<tries, authenticator>>
    /\ UNCHANGED <<mapper, now, ticks, config, running, stream_name, op, rec, remaining>>

\* a run of the target: records arrive at the sinks.  The clock is read as
\* the same instant throughout such a run; a token that is no longer valid at
\* the next request is one the endpoint issued with expires_in = 0.
Next ==
    \/ \E s \in Sinks : \E record \in InputRecords(stream_name[s]) : ProcessRecord(s, record)
    \/ \E s \in Sinks : \E resp \in TokenResponses : TokenResponse(s, resp)
    \/ \E s \in Sinks : \E resp \in EntityResponses : EntityResponse(s, resp)

\* the authenticator used on its own, through its public methods
NextAuth ==
    \/ \E d \in TickSteps : Tick(d)
    \/ \E s \in Sinks : AuthHeaders(s)
    \/ \E s \in Sinks : ForceRefresh(s)
    \/ \E s \in Sinks : \E resp \in TokenResponses : TokenResponse(s, resp)

Spec == Init /\ [][Next]_vars

SpecAuth == Init /\ [][NextAuth]_vars

\* expiries the configuration can hold for its access token: none, one that
\* has passed a minute after the start, one two hours ahead
PersistedExpiries == {NoExpiry, 60, 7200}

\* a run whose configuration supplies an access token
InitConfigToken ==
    /\ mapper = NoMapper
    /\ now = 0
    /\ ticks = 0
    /\ config \in [access_token : {"cfg"}, refresh_token : {NoToken},
                   expires_in : PersistedExpiries]
    /\ pc = [s \in Sinks |-> "idle"]
    /\ op = [s \in Sinks |-> "none"]
    /\ rec = [s \in Sinks |-> NoRecord]
    /\ tries = [s \in Sinks |-> 0]
    /\ authenticator = [s \in Sinks |-> NoAuthenticator]
    /\ processed_records = [s \in Sinks |-> <<>>]
    /\ obs = [s \in Sinks |-> NoObs]
    /\ stream_name = [s \in Sinks |-> StreamOf(s)]
    /\ running = {1}
    /\ remaining = [s \in Sinks |-> 0]

SpecConfigToken == InitConfigToken /\ [][NextAuth]_vars

\* the answers of a healthy service: a token, a server error, a success
PlainTokenResponses ==
    {resp \in TokenResponses : resp.kind = "ok" \/ resp.status = 500}

PlainEntityResponses ==
    {resp \in EntityResponses : resp.status \in {200, 500}}

\* the sinks of a run working in parallel against a healthy service
NextParallel ==
    \/ \E s \in Sinks : \E record \in InputRecords(stream_name[s]) : ProcessRecord(s, record)
    \/ \E s \in Sinks : \E resp \in PlainTokenResponses : TokenResponse(s, resp)
    \/ \E s \in Sinks : \E resp \in PlainEntityResponses : EntityResponse(s, resp)

SpecParallel == InitParallel /\ [][NextParallel]_vars

\* the answers of a service that accepts every record, with or without the
\* entity's identifier in the body
UpsertResponses ==
    {resp \in EntityResponses : resp.status \in {200, 500}} \cup IdentifiedResponses

\* one sink upserting its records
NextUpsert ==
    \/ \E s \in Sinks : \E record \in InputRecords(stream_name[s]) : ProcessRecord(s, record)
    \/ \E s \in Sinks : \E resp \in PlainTokenResponses : TokenResponse(s, resp)
    \/ \E s \in Sinks : \E resp \in UpsertResponses : EntityResponse(s, resp)

SpecUpsert == Init /\ [][NextUpsert]_vars

\* one sink of an order stream
InitOrders ==
    /\ InitCommon
    /\ \E name \in {"BuyOrders", "SellOrders"} : stream_name = [s \in Sinks |-> name]
    /\ running = {1}
    /\ remaining = [s \in Sinks |-> IF s = 1 THEN MaxRecords ELSE 0]

SpecOrders == InitOrders /\ [][NextUpsert]_vars

(* --------------------------- mapper inputs ---------------------------- *)
\* a field the record does not have
Absent == [t |-> "absent", s |-> <<>>]

\* the record a choice of values makes
record_with(values) ==
    [k \in {f \in DOMAIN values : values[f] # Absent} |-> values[k]]

MandatoryValues ==
    {Absent, None, Str(<<" ", "\t">>), Str(Acme), PyInt(<<"0">>)}

\* create records: every choice of values for the mandatory fields of a stream
CreateRecords(stream) ==
    LET fields == {get_mandatory_fields(stream)[i] :
                      i \in 1..Len(get_mandatory_fields(stream))}
    IN  {record_with(values) : values \in [fields -> MandatoryValues]}

Gln13 == <<"8", "7", "1", "2", "3", "4", "5", "6", "7", "8", "9", "0", "1">>
Iso == <<"2", "0", "2", "4", "-", "0", "1", "-", "0", "2">>

True == <<"t", "r", "u", "e">>
Vendor == <<"v", "e", "n", "d", "o", "r">>
Producer == <<"p", "r", "o", "d", "u", "c", "e", "r">>

\* one field with one value
Probes(fields, values) == {f :> v : f \in fields, v \in values}

ProbeRecords ==
    Probes({"name", "note", "remoteDataSyncedToDate"},
           {None, Str(Acme), Opaque, Decimal(<<"2", ".", "5">>), Datetime(Iso)})
    \cup Probes({"emails"},
           {None, Str(<<"[", "]">>), Str(<<"[", Quote, "a">>), Str(<<"a", "@", "b">>),
            Str(<<"[", Quote, "a", "@", "b", Quote, ",", Quote, "c", Quote, "]">>),
            Str(<<"7">>), Str(<<>>), PyInt(<<"7">>), PyList(<<Quote, "a", Quote>>)})
    \cup Probes({"ignored", "backorders", "reactingToLostSales"},
           {None, Str(True), Str(<<"T", "R", "U", "E">>), Str(<<"n", "o">>),
            Str(<<>>), PyBool(TRUE)})
    \cup Probes({"deliveryTime", "containerVolume"},
           {None, Str(<<"3", ".", "0">>), Str(<<"7">>), Str(<<"a", "b", "c">>),
            Str(<<"i", "n", "f">>), Str(<<"n", "a", "n">>), Str(<<>>),
            PyInt(<<"7">>), Decimal(<<"2", ".", "5">>), Opaque})
    \cup Probes({"minimumOrderValue"},
           {None, Str(<<"3">>), Str(<<"a", "b", "c">>), Str(<<"i", "n", "f">>),
            Decimal(<<"2", ".", "5">>)})
    \cup Probes({"type"},
           {None, Str(Vendor), Str(Producer), Str(<<"a", "b", "c">>), Str(<<>>),
            Opaque})
    \cup Probes({"globalLocationNumber"},
           {None, Str(Gln13), Str(<<"7">>), Str(<<>>), PyInt(<<"7">>)})

LineItemsValues ==
    { None, Str(<<"[", "]">>), Str(<<"[", "a", "]">>), Str(<<"[", "a", ",", "b", "]">>),
      Str(<<"[", "b", ",", "a", ",", "b", "]">>), Str(<<"[", "a", ",", "x", "]">>),
      Str(<<"[", "k", "]">>), Str(<<"[", "a">>) }

ClientTotal == <<"9", "9">>

\* records that probe the mapper: one field with one value, and orders with
\* or without a total and line items
PayloadRecords ==
    ProbeRecords
    \cup {record_with([totalValue |-> total, line_items |-> lines]) :
            total \in {Absent, Str(ClientTotal)},
            lines \in LineItemsValues \cup {Absent}}

HashValues ==
    { Str(Acme), Str(<<"2", ".", "5">>), PyFloat(<<"2", ".", "5">>),
      Decimal(<<"2", ".", "5">>), Datetime(Iso), Str(Iso), Opaque }

\* dicts of one or two fields, as their items in insertion order
HashItems ==
    {<<[key |-> "name", value |-> v]>> : v \in HashValues}
    \cup {<<[key |-> k[1], value |-> IF k[1] = "name" THEN v ELSE w],
            [key |-> k[2], value |-> IF k[2] = "name" THEN v ELSE w]>> :
            k \in {<<"name", "price">>, <<"price", "name">>},
            v \in {Str(Acme), Opaque}, w \in HashValues}

(* --------------------------- mapper actions --------------------------- *)
\* Each behaviour makes one call of a pure method on a fresh sink.
sink_vars == <<now, ticks, config, running, stream_name, pc, op, rec, tries, authenticator,
               processed_records, remaining, obs>>

\* sinks.py:236-243: the mandatory-field check of a create record
Validate ==
    /\ mapper.call = "none"
    /\ \E stream \in Streams : \E record \in CreateRecords(stream) :
          mapper' = [NoMapper EXCEPT !.call = "validate", !.stream = stream,
                                     !.record = record,
                                     !.missing = missing_fields(stream, record)]
    /\ UNCHANGED sink_vars

\* sinks.py:123-150: _prepare_payload of a record
PreparePayload ==
    /\ mapper.call = "none"
    /\ \E stream \in Streams : \E record \in PayloadRecords :
          mapper' = [NoMapper EXCEPT !.call = "prepare_payload", !.stream = stream,
                                     !.record = record,
                                     !.payload = prepare_payload(stream, record)]
    /\ UNCHANGED sink_vars

\* sinks.py:331-358: _generate_record_hash of two records
GenerateRecordHash ==
    /\ mapper.call = "none"
    /\ \E items \in HashItems : \E other \in HashItems :
          mapper' = [NoMapper EXCEPT !.call = "generate_record_hash",
                                     !.items = items, !.other = other,
                                     !.hash = generate_record_hash(items),
                                     !.other_hash = generate_record_hash(other)]
    /\ UNCHANGED sink_vars

NextMapper == Validate \/ PreparePayload \/ GenerateRecordHash

\* a fresh sink of a target configured without a token
InitMapper == Init /\ config.access_token = NoToken

SpecMapper == InitMapper /\ [][NextMapper]_vars

(* ------------------------------ claims -------------------------------- *)
\* the call a sink made last has ended
Ended(s) == pc[s] \in {"idle", "aborted"}

\* process_record has been called and has ended on sink s
RecordEnded(s) == op[s] = "process_record" /\ Ended(s)

\* the outcome appended last on sink s
LastOutcome(s) == processed_records[s][Len(processed_records[s])]

\* C1: a record whose entity request was answered 401 ends with exactly one
\* forced token refresh made and exactly one further entity request sent after
\* the 401 (the retry), and never more than one while it is being processed.
C1_RefreshOnceRetryOnce ==
    \A s \in Sinks :
        /\ obs[s].sent_after_401 <= 1
        /\ (RecordEnded(s) /\ obs[s].got401) =>
              (obs[s].forced = 1 /\ obs[s].sent_after_401 = 1)

\* C2: no exception leaves process_record: the call never ends by raising,
\* and a call in which something raised ends with a failure outcome that
\* carries a message.
C2_NoExceptionEscapes ==
    \A s \in Sinks :
        /\ pc[s] # "aborted"
        /\ (RecordEnded(s) /\ obs[s].raised # "none") =>
              /\ processed_records[s] # <<>>
              /\ LastOutcome(s).success = FALSE
              /\ LastOutcome(s).error # "none"

\* C3: at any time at most one token request is in flight over all the sinks
\* of the run.
C3_OneTokenRequestInFlight ==
    Cardinality({s \in Sinks : pc[s] = "token"}) <= 1

\* C4: is_token_valid answers true exactly when an access token and an
\* expiry are cached and the expiry is more than 120 seconds after the time of
\* the call; at exactly 120 seconds, and without a token, it answers false.
C4_IsTokenValid ==
    \A s \in Sinks :
        obs[s].checked.done =>
            LET c == obs[s].checked
            IN  /\ c.result <=> (/\ c.a.access_token # NoToken
                                 /\ c.a.token_expires_at # NoExpiry
                                 /\ c.a.token_expires_at > c.at + 120)
                /\ c.a.token_expires_at = c.at + 120 => ~c.result
                /\ c.a.access_token = NoToken => ~c.result

\* C4 witness: is_token_valid was asked about a cached token whose expiry is
\* exactly 120 seconds ahead, and answered false.
C4_Witness ==
    \E s \in Sinks :
        /\ obs[s].checked.done
        /\ obs[s].checked.a.access_token # NoToken
        /\ obs[s].checked.a.token_expires_at = obs[s].checked.at + 120
        /\ ~obs[s].checked.result

\* C5: every header auth_headers returns carries a token that is_token_valid
\* accepts at the moment of return, and a header returned for a cache that was
\* invalid comes after a refresh.
C5_HeaderTokenValid ==
    \A s \in Sinks :
        (op[s] = "auth_headers" /\ obs[s].header # "") =>
            /\ obs[s].header_valid
            /\ ~obs[s].checked.result => obs[s].refresh = "ok"

\* C6: a refresh that failed leaves access token, refresh token and expiry
\* as they were when update_access_token was entered.
C6_FailedRefreshKeepsCache ==
    \A s \in Sinks :
        obs[s].refresh = "failed" => authenticator[s] = obs[s].before

\* C7: when force_refresh returns without an error the cached expiry is
\* strictly later than the time of return, and the cache is never one that
\* is_token_valid accepts while the expiry has passed.
C7_ForceRefreshNotExpired ==
    [][\A s \in Sinks :
          /\ (/\ op[s] = "force_refresh"
              /\ pc[s] = "token"
              /\ pc'[s] = "idle"
              /\ obs'[s].raised = "none") =>
                 authenticator'[s].token_expires_at > now
          /\ is_token_valid(authenticator'[s], now') =>
                 authenticator'[s].token_expires_at > now']_vars

\* C8: after every successful refresh the durable configuration holds the
\* new access token, refresh token and absolute expiry.
C8_RefreshPersisted ==
    \A s \in Sinks :
        obs[s].refresh = "ok" =>
            /\ config.access_token = authenticator[s].access_token
            /\ config.refresh_token = authenticator[s].refresh_token
            /\ config.expires_in = authenticator[s].token_expires_at

\* C9: a refresh of a cached token that the token endpoint answers with its
\* rate limit (429) ends as a success without an error, and the cache is as
\* it was before.
C9_RateLimitIsNoOp ==
    \A s \in Sinks :
        (/\ obs[s].response = "http"
         /\ obs[s].status = 429
         /\ obs[s].before.access_token # NoToken) =>
            /\ obs[s].refresh = "ok"
            /\ obs[s].raised = "none"
            /\ authenticator[s] = obs[s].before

\* C10: a POST record with a mandatory field missing ends with a failure
\* outcome appended for it, and neither an entity request nor a token request
\* was sent for it.
C10_MissingMandatoryFails ==
    \A s \in Sinks :
        (/\ RecordEnded(s)
         /\ http_method(rec[s]) = "POST"
         /\ missing_fields(stream_name[s], rec[s]) # <<>>) =>
            /\ obs[s].sent = 0
            /\ obs[s].token_requests = 0
            /\ pc[s] = "idle"
            /\ Len(processed_records[s]) = MaxRecords - remaining[s]
            /\ LastOutcome(s).success = FALSE
            /\ LastOutcome(s).error = "missing"

\* the exceptions of the transient failures: a status of 500 or more, a read
\* timeout, a connection reset
Transient == {"RetriableAPIError", "ReadTimeout", "ConnectionError"}

\* the outcome of the record of the call that just ended is the last one held
Recorded(s) ==
    /\ pc[s] = "idle"
    /\ Len(processed_records[s]) = MaxRecords - remaining[s]

\* C11: a transient failure (a status of 500 or more, a read timeout, a
\* connection reset) never fails the record on its first occurrence: a record
\* that ended on one has been retried up to the cap
C11_TransientIsRetried ==
    \A s \in Sinks :
        (RecordEnded(s) /\ obs[s].raised \in Transient) => tries[s] = MaxTries

\* C12: the upsert request is attempted at most 5 times; when every attempt
\* failed transiently the record, and only it, gets a failure outcome and the
\* sink is ready for the next record
C12_BoundedAttempts ==
    \A s \in Sinks :
        /\ tries[s] <= MaxTries
        /\ obs[s].sent <= MaxTries
        /\ (RecordEnded(s) /\ tries[s] = MaxTries /\ obs[s].raised \in Transient)
              => /\ Recorded(s)
                 /\ ~LastOutcome(s).success
                 /\ LastOutcome(s).error = "exception"

\* C13: a 404 answer is not retried and not raised: no request is in flight
\* after it, the request that drew it on the first attempt is the only one
\* sent, and the record gets the not-found failure outcome
C13_NotFoundIsNotRetried ==
    \A s \in Sinks :
        /\ (pc[s] = "request" => obs[s].answered # 404)
        /\ (RecordEnded(s) /\ obs[s].answered = 404)
              => /\ obs[s].raised = "none"
                 /\ (tries[s] = 1 => obs[s].sent = 1)
                 /\ Recorded(s)
                 /\ ~LastOutcome(s).success
                 /\ LastOutcome(s).error = "not_found"

\* C14: a 4xx answer other than 401 and 404 is never retried and fails the
\* record: no request is in flight after it, the request that drew it on the
\* first attempt is the only one sent and the record gets a failure outcome;
\* a 2xx answer gives the record a success outcome
C14_ClientErrorIsFatal ==
    \A s \in Sinks :
        LET client_error == /\ obs[s].answered >= 400 /\ obs[s].answered < 500
                            /\ obs[s].answered \notin {401, 404}
            ok == obs[s].answered >= 200 /\ obs[s].answered < 300
        IN  /\ (pc[s] = "request" => ~client_error /\ ~ok)
            /\ (RecordEnded(s) /\ client_error)
                  => /\ (tries[s] = 1 => obs[s].sent = 1)
                     /\ Recorded(s)
                     /\ ~LastOutcome(s).success
            /\ (RecordEnded(s) /\ ok)
                  => /\ obs[s].raised = "none"
                     /\ Recorded(s)
                     /\ LastOutcome(s).success

\* C15: every processed record leaves exactly one outcome: after n calls of
\* process_record have ended the sink holds n outcomes
C15_OneOutcomePerRecord ==
    \A s \in running :
        (op[s] \in {"none", "process_record"} /\ Ended(s))
            => Len(processed_records[s]) = MaxRecords - remaining[s]

\* C16: the outcomes of a sink only accumulate: every step leaves the earlier
\* outcomes in place and unchanged, no count decreases, and in get_stats and
\* in the simplified state counts success + failure = total = the number of
\* outcomes recorded
C16_OutcomesAdditive ==
    [][\A s \in Sinks :
        processed_records'[s] # processed_records[s] =>
            LET old == processed_records[s]
                new == processed_records'[s]
                stats == get_stats(new)
                state == get_state(new)
            IN  /\ Len(new) >= Len(old)
                /\ SubSeq(new, 1, Len(old)) = old
                /\ stats.success >= success_count(old)
                /\ stats.failure >= failure_count(old)
                /\ stats.total >= get_stats(old).total
                /\ stats.success + stats.failure = stats.total
                /\ stats.total = Len(stats.processed_records)
                /\ state.success + state.failed = state.total
                /\ state.total = Len(new)
                /\ state.success = stats.success
                /\ state.failed = stats.failure]_vars

\* a sink that holds a success outcome and a failure outcome
C16_Witness ==
    \E s \in Sinks :
        /\ Len(processed_records[s]) = 2
        /\ success_count(processed_records[s]) = 1
        /\ failure_count(processed_records[s]) = 1
        /\ get_stats(processed_records[s]).total = 2

C18_OnlyInitialCredentialIsFatal ==
    \A s \in Sinks :
        LET first_token_failed ==
                /\ RecordEnded(s)
                /\ remaining[s] = MaxRecords - 1
                /\ obs[s].refresh = "failed"
                /\ obs[s].before.access_token = NoToken
        IN  /\ first_token_failed
                => pc[s] = "aborted" /\ processed_records[s] = <<>>
            /\ pc[s] = "aborted" => first_token_failed

\* C19: a record with an identifier value is handled as PATCH; a record with
\* no identifier value is handled as POST and is subject to the create
\* validation: when it lacks a mandatory field nothing is sent for it
C19_MethodByIdentifier ==
    \A s \in Sinks :
        op[s] = "process_record"
            => /\ Truthy(Get(rec[s], "id")) => obs[s].method = "PATCH"
               /\ Get(rec[s], "id") = None
                     => /\ obs[s].method = "POST"
                        /\ missing_fields(stream_name[s], rec[s]) # <<>>
                              => obs[s].sent = 0 /\ obs[s].token_requests = 0

\* C20: a record that carries an identifier is never failed for a missing
\* mandatory field, whatever it lacks, and validation does not keep its
\* request back: it is handled as PATCH and, unless building the payload or
\* obtaining the token raised, its request is sent
C20_PatchSkipsValidation ==
    \A s \in Sinks :
        (op[s] = "process_record" /\ Truthy(Get(rec[s], "id")))
            => /\ obs[s].method = "PATCH"
               /\ (RecordEnded(s) /\ Recorded(s)) => LastOutcome(s).error # "missing"
               /\ (Ended(s) /\ obs[s].raised = "none") => obs[s].sent >= 1

\* an update that lacks a mandatory field has been sent and has succeeded
C20_Witness ==
    \E s \in Sinks :
        /\ RecordEnded(s) /\ Recorded(s)
        /\ Truthy(Get(rec[s], "id"))
        /\ missing_fields(stream_name[s], rec[s]) # <<>>
        /\ obs[s].sent >= 1
        /\ LastOutcome(s).success

\* the mandatory fields of the seven entities as the entity tables document them
DocumentedMandatory ==
    [ Products |-> {"name", "stockLevel", "unlimitedStock"},
      Suppliers |-> {"name"},
      SupplierProducts |-> {"name", "productId", "supplierId"},
      BuyOrders |-> {"placed", "totalValue", "supplierId", "accountId"},
      BuyOrderLines |-> {"subtotalValue", "productId", "quantity", "buyOrderId"},
      SellOrders |-> {"totalValue", "placed"},
      SellOrderLines |-> {"subtotalValue", "sellOrderId", "productId", "quantity"} ]

\* a string with no character other than whitespace
Blank(v) == v.t = "str" /\ \A i \in 1..Len(v.s) : IsWhitespace(v.s[i])

\* C21: for each of the seven entities the mandatory fields checked on a
\* create are those of the documented table, and the check rejects a create
\* record exactly when a field of the table is absent, null or a blank string.
C21_MandatoryTables ==
    /\ DOMAIN DocumentedMandatory = Streams
    /\ \A stream \in Streams :
          {get_mandatory_fields(stream)[i] : i \in 1..Len(get_mandatory_fields(stream))}
              = DocumentedMandatory[stream]
    /\ mapper.call = "validate" =>
          (mapper.missing # <<>>
              <=> \E f \in DocumentedMandatory[mapper.stream] :
                     \/ ~Has(mapper.record, f)
                     \/ mapper.record[f] = None
                     \/ Blank(mapper.record[f]))

\* a buy order whose only fault is a blank placed is rejected for that field
C21_Witness ==
    /\ mapper.call = "validate"
    /\ mapper.stream = "BuyOrders"
    /\ mapper.record = [placed |-> Str(<<" ", "\t">>), totalValue |-> Str(Acme),
                        supplierId |-> PyInt(<<"0">>), accountId |-> Str(Acme)]
    /\ mapper.missing = <<"placed">>

\* C22: the outcome of a successful upsert carries the identifier the
\* response returned, and the record's own identifier only when the response
\* has none.
C22_OutcomeCarriesReturnedId ==
    \A s \in Sinks :
        (RecordEnded(s) /\ Recorded(s) /\ LastOutcome(s).success)
            => LastOutcome(s).id = IF obs[s].returned # None THEN obs[s].returned
                                   ELSE Get(rec[s], "id")

\* the payload an order sink prepared without raising
OrderPayload ==
    /\ mapper.call = "prepare_payload"
    /\ mapper.stream \in {"BuyOrders", "SellOrders"}
    /\ mapper.payload.raised = "none"

\* C23: the totalValue an order sink sends is the sum of the subtotals of the
\* record's line items and never the total the client supplied, and each line
\* item becomes one order line.
C23_TotalIsLineItemSum ==
    OrderPayload =>
        LET attributes == mapper.payload.attributes
            lines == line_items_of(Get(mapper.record, "line_items"))
        IN  /\ (Has(mapper.record, "totalValue") /\ Has(attributes, "totalValue"))
                  => attributes["totalValue"] # mapper.record["totalValue"]
            /\ Has(mapper.record, "line_items")
                  => /\ Get(attributes, "totalValue") = lines.totalValue
                     /\ Get(attributes, "orderLines") = lines.orderLines

\* the payload a sink prepared without raising
Prepared == mapper.call = "prepare_payload" /\ mapper.payload.raised = "none"

\* the attributes the mapper derives instead of copying
DerivedAttributes == {"orderLines"}

\* C24: every key of the outgoing attributes is a field of the mapping table
\* of the entity or a derived attribute; no field outside the table is sent.
C24_OnlyMappedFields ==
    Prepared =>
        DOMAIN mapper.payload.attributes
            \subseteq field_mappings(mapper.stream) \cup DerivedAttributes

\* the fields of a sequence
Range(fields) == {fields[i] : i \in 1..Len(fields)}

\* C25: an integer-class field of the entity's table that holds a number is
\* sent truncated to an integer ("3.0" as 3), one that holds no number is left
\* out, and in neither case does preparing the payload raise.
C25_IntegerCoercion ==
    mapper.call = "prepare_payload" =>
        \A f \in Range(integer_fields) \cap field_mappings(mapper.stream) :
            (Has(mapper.record, f) /\ mapper.record[f] # None) =>
                LET number == float_of(mapper.record[f])
                    attributes == mapper.payload.attributes
                IN  /\ mapper.payload.raised = "none"
                    /\ number.kind = "finite"
                          => Get(attributes, f) = PyInt(number.whole)
                    /\ mapper.record[f] = Str(<<"3", ".", "0">>)
                          => Get(attributes, f) = PyInt(<<"3">>)
                    /\ number.kind \in {"ValueError", "TypeError"}
                          => ~Has(attributes, f)

\* C26: in every entity whose table has a boolean-as-string field, a string
\* value of it is sent as the boolean true when it is "true" in any case and
\* as the boolean false otherwise, never as a string.
C26_BooleanStrings ==
    Prepared =>
        \A f \in Range(boolean_fields) \cap field_mappings(mapper.stream) :
            (Has(mapper.record, f) /\ mapper.record[f].t = "str") =>
                /\ Has(mapper.payload.attributes, f)
                /\ mapper.payload.attributes[f]
                      = PyBool(mapper.record[f].s \in {True, <<"T", "R", "U", "E">>})

\* C27: a type in the outgoing attributes is vendor or producer, and a record
\* of an entity whose table has type and whose type is anything else is sent
\* with the type vendor.
C27_TypeIsValid ==
    Prepared =>
        LET attributes == mapper.payload.attributes
        IN  /\ Has(attributes, "type")
                  => attributes["type"] \in {Str(Vendor), Str(Producer)}
            /\ (/\ "type" \in field_mappings(mapper.stream)
                 /\ Has(mapper.record, "type")
                 /\ mapper.record["type"] \notin {Str(Vendor), Str(Producer)})
                  => Get(attributes, "type") = Str(Vendor)

\* a supplier whose type is neither has been prepared with the type vendor
C27_Witness ==
    /\ Prepared
    /\ mapper.stream = "Suppliers"
    /\ mapper.record = [type |-> Str(<<"a", "b", "c">>)]
    /\ mapper.payload.attributes = [type |-> Str(Vendor)]

\* C28: a globalLocationNumber that is not 13 characters long is left out of
\* the attributes and preparing the payload does not raise, so the record is
\* still sent; one of 13 characters is sent unchanged.
C28_GlobalLocationNumber ==
    (/\ mapper.call = "prepare_payload"
     /\ "globalLocationNumber" \in field_mappings(mapper.stream)
     /\ Has(mapper.record, "globalLocationNumber")) =>
        LET value == mapper.record["globalLocationNumber"]
            attributes == mapper.payload.attributes
        IN  /\ mapper.payload.raised = "none"
            /\ IF value.t = "str" /\ Len(value.s) = 13
               THEN Get(attributes, "globalLocationNumber") = value
               ELSE ~Has(attributes, "globalLocationNumber")

\* C29: an emails value that cannot be parsed as JSON is sent as the empty
\* array, and preparing the payload does not raise, so the record is not
\* failed for it.
C29_EmailsParseFailure ==
    (/\ mapper.call = "prepare_payload"
     /\ "emails" \in field_mappings(mapper.stream)
     /\ Has(mapper.record, "emails")
     /\ mapper.record["emails"] # None
     /\ json_loads(mapper.record["emails"]).raised # "none") =>
        /\ mapper.payload.raised = "none"
        /\ Get(mapper.payload.attributes, "emails") = PyList(<<>>)

\* the field values of a record, datetimes and decimals normalised, whatever
\* the order of its fields
NormalizedValues(items) ==
    {[key |-> items[i].key, value |-> serializable(items[i].value)] :
        i \in 1..Len(items)}

\* C30: every record has a content hash, and two records have the same hash
\* exactly when their normalised field values are the same, in whatever order
\* their fields are listed.
C30_HashOfNormalizedValues ==
    mapper.call = "generate_record_hash" =>
        /\ mapper.hash.raised = "none"
        /\ mapper.other_hash.raised = "none"
        /\ mapper.hash.digest = mapper.other_hash.digest
              <=> NormalizedValues(mapper.items) = NormalizedValues(mapper.other)

\* C31: a null value of a field of the entity's table is treated as an absent
\* field: it contributes no attribute and preparing the payload does not
\* raise, so the record is not failed for it.
C31_NullIsAbsent ==
    mapper.call = "prepare_payload" =>
        \A f \in DOMAIN mapper.record \cap field_mappings(mapper.stream) :
            mapper.record[f] = None
                => /\ mapper.payload.raised = "none"
                   /\ ~Has(mapper.payload.attributes, f)

\* C32: every request process_record sends has a path that fits its method:
\* a PATCH goes to the item path of the record's identifier, a POST to the
\* collection path, and no PATCH goes to the collection path.
C32_MethodAndPathAgree ==
    \A s \in Sinks :
        (op[s] = "process_record" /\ obs[s].sent >= 1) =>
            /\ obs[s].method = "PATCH"
                  => obs[s].endpoint = "item" /\ Truthy(Get(rec[s], "id"))
            /\ obs[s].method = "POST" => obs[s].endpoint = "collection"

\* C33: _request returns normally only with a status below 400 or with 404,
\* so no outcome comes from the branch of process_record for a status of 400
\* or more, and a record whose last answer was such a status other than 404
\* has the failure outcome of the exception handler.
C33_ErrorStatusRaises ==
    \A s \in Sinks :
        /\ \A i \in 1..Len(processed_records[s]) :
              processed_records[s][i].error # "status"
        /\ (RecordEnded(s) /\ obs[s].answered # NoStatus) =>
              /\ obs[s].raised = "none"
                    => obs[s].answered < 400 \/ obs[s].answered = 404
              /\ (obs[s].answered >= 400 /\ obs[s].answered # 404)
                    => /\ obs[s].raised # "none"
                       /\ Recorded(s)
                       /\ ~LastOutcome(s).success
                       /\ LastOutcome(s).error = "exception"

\* the last call on the authenticator of s was a force_refresh that failed
ForceRefreshFailed(s) ==
    op[s] = "force_refresh" /\ pc[s] = "idle" /\ obs[s].refresh = "failed"

\* C34: after a force_refresh that failed the cache holds no access token and
\* no expiry and is_token_valid is false, and the auth_headers call that
\* follows posts a token request instead of returning the token from before.
C34_ForceRefreshDiscards ==
    [][\A s \in Sinks :
          ForceRefreshFailed(s) =>
              /\ authenticator[s].access_token = NoToken
              /\ authenticator[s].token_expires_at = NoExpiry
              /\ ~is_token_valid(authenticator[s], now)
              /\ op'[s] = "auth_headers"
                    => pc'[s] = "token" /\ obs'[s].token_requests = 1]_vars

\* C35: a create record of an order sink whose totalValue is missing ends with
\* a failure outcome for the missing field and with neither an entity request
\* nor a token request sent, also when the record carries line_items from
\* which the total would be computed.
C35_ValidationBeforeDerivation ==
    \A s \in Sinks :
        (/\ RecordEnded(s)
         /\ stream_name[s] \in {"BuyOrders", "SellOrders"}
         /\ http_method(rec[s]) = "POST"
         /\ IsMissing(rec[s], "totalValue")) =>
            /\ obs[s].sent = 0
            /\ obs[s].token_requests = 0
            /\ Recorded(s)
            /\ ~LastOutcome(s).success
            /\ LastOutcome(s).error = "missing"

\* C36: an authenticator constructed by auth_headers from a configuration
\* with an access token caches that token with an expiry of 3600 seconds after
\* the construction, whatever expiry the configuration holds; the expiry
\* stays as long as the token is cached; and every auth_headers call made more
\* than 120 seconds before that expiry, with the token still cached, returns
\* the token and posts no token request.
C36_ConfigTokenAssumedHour ==
    [][\A s \in Sinks : config.access_token # NoToken =>
          /\ (/\ ~authenticator[s].created
              /\ authenticator'[s].created
              /\ op'[s] = "auth_headers") =>
                 /\ authenticator'[s].access_token = config.access_token
                 /\ authenticator'[s].token_expires_at = now + 3600
          /\ (/\ authenticator[s].access_token = config.access_token
              /\ authenticator'[s].access_token = config.access_token) =>
                 authenticator'[s].token_expires_at = authenticator[s].token_expires_at
          /\ (/\ op'[s] = "auth_headers"
              /\ obs'[s].checked.done
              /\ obs'[s].checked.a.access_token = config.access_token
              /\ obs'[s].checked.at + 120 < obs'[s].checked.a.token_expires_at) =>
                 /\ pc'[s] = "idle"
                 /\ obs'[s].token_requests = 0
                 /\ obs'[s].header = config.access_token
                 /\ authenticator'[s] = obs'[s].checked.a]_vars

\* C36 witness: the configuration holds an expiry that has passed, the
\* authenticator was constructed at the start, and an auth_headers call a
\* minute later returned the configuration's token without a token request.
C36_Witness ==
    \E s \in Sinks :
        /\ config.expires_in = 60
        /\ op[s] = "auth_headers"
        /\ pc[s] = "idle"
        /\ obs[s].checked.done
        /\ obs[s].checked.at = 60
        /\ obs[s].checked.a.token_expires_at = 3600
        /\ obs[s].header = config.access_token
        /\ obs[s].token_requests = 0

====
